---- MODULE Spec2Model ----
(***************************************************************************)
(* Model of native/bastille_crypto/src/lib.rs: the deterministic keypair   *)
(* NIFs dilithium2/falcon512/sphincsplus_keypair_from_seed and the        *)
(* persistent key cache they use                                           *)
(* (get_cache_dir, load_persistent_cache, save_persistent_cache).          *)
(*                                                                         *)
(* Bytes are integers 0..255, byte strings are sequences of bytes.  The    *)
(* file system is a set of existing directories and a function from the    *)
(* existing file paths to their contents.  Each worker thread of the host  *)
(* runs one NIF call at a time; its position in the code is proc[p].pc.    *)
(***************************************************************************)
EXTENDS Integers, Sequences, FiniteSets, TLC

\* ------------------------------------------------------------------ bounds

\* Worker threads of the host that may call the NIFs.
NumProcs == 2
\* Derive calls started in one behaviour.
MaxCalls == 3
\* Distinct outcomes of the random source per algorithm.
NumDraws == 2
\* Key lengths, scaled down from the real algorithms' (the code never looks
\* at them: it copies pk.as_bytes() and sk.as_bytes() whatever their length).
PkLenUnit == 1
SkLenUnit == 2
\* Store failures, process deaths and outside clearings of the cache in one
\* behaviour.
MaxEvents == 1

\* --------------------------------------------------------------- constants

ByteRange == 256
LenPrefix == 4

Procs == 1..NumProcs
Algs == {"dilithium2", "falcon512", "sphincsplus"}

\* b"dilithium2_v1:", b"falcon512_v1:", b"sphincsplus_v1:"
Dilithium2Tag == <<100, 105, 108, 105, 116, 104, 105, 117, 109, 50, 95, 118, 49, 58>>
Falcon512Tag == <<102, 97, 108, 99, 111, 110, 53, 49, 50, 95, 118, 49, 58>>
SphincsplusTag == <<115, 112, 104, 105, 110, 99, 115, 112, 108, 117, 115, 95, 118, 49, 58>>

\* DomainTag with falcon512's tag pasted from dilithium2's.
DomainTagPasted(alg) ==
    CASE alg = "dilithium2" -> Dilithium2Tag
      [] alg = "falcon512" -> Dilithium2Tag
      [] alg = "sphincsplus" -> SphincsplusTag

DomainTag(alg) ==
    CASE alg = "dilithium2" -> Dilithium2Tag
      [] alg = "falcon512" -> Falcon512Tag
      [] alg = "sphincsplus" -> SphincsplusTag

\* Seeds the callers of the NIFs pass.
Seeds == {<<>>}
\* Seeds for the cache-key construction: the empty seed, seeds that are
\* another algorithm's tag, and seeds that begin with one.
KeySeeds == {<<>>, <<0>>, <<0, 0>>, Dilithium2Tag, Falcon512Tag, SphincsplusTag,
             Falcon512Tag \o <<0>>, Dilithium2Tag \o Falcon512Tag}

\* ------------------------------------------------------------ pure helpers

\* cache_key.extend_from_slice(tag); cache_key.extend_from_slice(seed)
HashInput(alg, seed) == DomainTag(alg) \o seed

\* blake3::hash taken as collision-free: a digest is represented by the
\* byte string it is the digest of.
Blake3Hash(input) == input

CacheKey(alg, seed) == Blake3Hash(HashInput(alg, seed))

HexDigit(n) ==
    CASE n = 0 -> "0" [] n = 1 -> "1" [] n = 2 -> "2" [] n = 3 -> "3"
      [] n = 4 -> "4" [] n = 5 -> "5" [] n = 6 -> "6" [] n = 7 -> "7"
      [] n = 8 -> "8" [] n = 9 -> "9" [] n = 10 -> "a" [] n = 11 -> "b"
      [] n = 12 -> "c" [] n = 13 -> "d" [] n = 14 -> "e" [] n = 15 -> "f"

\* hex::encode: two lowercase hex digits per byte, high nibble first.
HexEncode(bytes) ==
    [i \in 1..(2 * Len(bytes)) |->
        IF i % 2 = 1 THEN HexDigit(bytes[(i + 1) \div 2] \div 16)
                     ELSE HexDigit(bytes[i \div 2] % 16)]

\* U32ToLeBytes with the bytes in big-endian order (to_be_bytes).
U32ToBeBytes(n) ==
    <<(n \div (ByteRange * ByteRange * ByteRange)) % ByteRange,
      (n \div (ByteRange * ByteRange)) % ByteRange,
      (n \div ByteRange) % ByteRange,
      n % ByteRange>>

\* (n as u32).to_le_bytes(): the four low bytes of n, lowest first (the cast
\* drops the bits of n above the 32nd).
U32ToLeBytes(n) ==
    <<n % ByteRange,
      (n \div ByteRange) % ByteRange,
      (n \div (ByteRange * ByteRange)) % ByteRange,
      (n \div (ByteRange * ByteRange * ByteRange)) % ByteRange>>

\* u32::from_le_bytes([b0, b1, b2, b3])
U32FromLeBytes(b0, b1, b2, b3) ==
    b0 + ByteRange * b1 + ByteRange * ByteRange * b2
       + ByteRange * ByteRange * ByteRange * b3

\* EncodeRecord with the length of both keys in the prefix.
EncodeRecordTotalLen(pk, sk) == U32ToLeBytes(Len(pk) + Len(sk)) \o pk \o sk

\* The bytes save_persistent_cache builds: [pk_len:4][pk_data][sk_data]
EncodeRecord(pk, sk) == U32ToLeBytes(Len(pk)) \o pk \o sk

NoRecord == <<>>

\* ParseRecord without the test of the declared length: the slices are cut
\* at the end of the data.
ParseRecordClamped(data) ==
    IF Len(data) >= LenPrefix
    THEN LET pk_len == U32FromLeBytes(data[1], data[2], data[3], data[4])
             pk_end == IF LenPrefix + pk_len > Len(data)
                       THEN Len(data) ELSE LenPrefix + pk_len
         IN  <<SubSeq(data, LenPrefix + 1, pk_end), SubSeq(data, pk_end + 1, Len(data))>>
    ELSE NoRecord

\* ParseRecord with the secret key sliced one byte too far in.
ParseRecordSkOffByOne(data) ==
    IF Len(data) >= LenPrefix
    THEN LET pk_len == U32FromLeBytes(data[1], data[2], data[3], data[4])
         IN  IF Len(data) >= LenPrefix + pk_len
             THEN <<SubSeq(data, LenPrefix + 1, LenPrefix + pk_len),
                    SubSeq(data, LenPrefix + pk_len + 2, Len(data))>>
             ELSE NoRecord
    ELSE NoRecord

\* ParseRecord with the length test strict (>): a record needs a byte of
\* secret key.
ParseRecordStrict(data) ==
    IF Len(data) >= LenPrefix
    THEN LET pk_len == U32FromLeBytes(data[1], data[2], data[3], data[4])
         IN  IF Len(data) > LenPrefix + pk_len
             THEN <<SubSeq(data, LenPrefix + 1, LenPrefix + pk_len),
                    SubSeq(data, LenPrefix + pk_len + 1, Len(data))>>
             ELSE NoRecord
    ELSE NoRecord

\* The parse of load_persistent_cache: NoRecord for None, <<pk, sk>> for Some.
ParseRecord(data) ==
    IF Len(data) >= LenPrefix
    THEN LET pk_len == U32FromLeBytes(data[1], data[2], data[3], data[4])
         IN  IF Len(data) >= LenPrefix + pk_len
             THEN <<SubSeq(data, LenPrefix + 1, LenPrefix + pk_len),
                    SubSeq(data, LenPrefix + pk_len + 1, Len(data))>>
             ELSE NoRecord
    ELSE NoRecord

\* Lengths of the keys the algorithm's keypair() returns (scaled).
PkLen(alg) == IF alg = "dilithium2" THEN PkLenUnit + 1 ELSE PkLenUnit
SkLen(alg) == IF alg = "sphincsplus" THEN SkLenUnit ELSE SkLenUnit + 1

\* The longest record of the three algorithms.
MaxRecordLen == LenPrefix + PkLenUnit + SkLenUnit + 2

\* The keypair the algorithm's keypair() returns on draw r of the random
\* source: r fills the public key, ByteRange - r the secret key.
Keypair(alg, r) ==
    <<[i \in 1..PkLen(alg) |-> r], [i \in 1..SkLen(alg) |-> ByteRange - r]>>

\* WriteAt on a handle opened in append mode: the chunk goes to the end.
WriteAppend(data, off, chunk) == data \o chunk

\* write(2) at offset off of an open file: bytes before off are kept (a gap
\* past the end reads as zeros), the chunk replaces what it covers, the
\* bytes after it are kept.
WriteAt(data, off, chunk) ==
    LET end == off + Len(chunk)
        n == IF Len(data) > end THEN Len(data) ELSE end
    IN  [i \in 1..n |->
            IF i > off /\ i <= end THEN chunk[i - off]
            ELSE IF i <= Len(data) THEN data[i] ELSE 0]

\* ------------------------------------------------------------------- state

VARIABLES
    env,                  \* BASTILLE_STORAGE_BASE_PATH: <<>> unset, <<path>> set
    DETERMINISTIC_CACHE,  \* the global in-memory map (cache key -> keypair)
    dirs,                 \* the directories that exist
    files,                \* existing file path -> its bytes
    proc,                 \* per worker thread: the NIF call it is running
    calls,                \* derive calls started so far
    events,               \* store failures, short writes, process deaths and
                          \* outside clearings so far
    wipes,                \* outside clearings of the cache so far
    \* History since the cache was last cleared from outside:
    firstRet,             \* <<alg, seed>> -> what its first successful derive
                          \* returned (NoRecord: none yet)
    gens,                 \* <<alg, seed>> -> keypair() invocations of its calls
    storeFailed,          \* a store has failed
    preWipe,              \* firstRet as it was when the cache was last cleared
    writers,              \* file path -> the <<alg, seed>> that opened it for
                          \* writing
    crashed,              \* the process has died with a call in flight
    \* Direct calls of sign, verify, load_ and save_persistent_cache:
    last                  \* the last such call: its name, arguments, outcome

fsVars == <<dirs, files>>
\* What the sign and verify NIFs neither read nor write.
cacheVars == <<env, DETERMINISTIC_CACHE, dirs, files, proc, calls, events, wipes,
               firstRet, gens, storeFailed, writers, preWipe, crashed>>
histVars == <<firstRet, gens, storeFailed, writers, preWipe, crashed>>
vars == <<env, DETERMINISTIC_CACHE, last, dirs, files, proc, calls, events, wipes,
          firstRet, gens, storeFailed, writers, preWipe, crashed>>

AlgSeeds == Algs \X Seeds

DefaultBase == "data/test"

\* std::env::var("BASTILLE_STORAGE_BASE_PATH").unwrap_or("data/test") + "/key_cache"
get_cache_dir == <<IF env = <<>> THEN DefaultBase ELSE env[1], "/key_cache">>

\* CacheFile with one file name for every cache key.
CacheFileShared(cache_dir, cache_key) == <<cache_dir, HexEncode(<<>>), ".keypair">>

\* format!("{}/{}.keypair", cache_dir, hex::encode(cache_key))
CacheFile(cache_dir, cache_key) == <<cache_dir, HexEncode(cache_key), ".keypair">>

\* A thread outside the NIFs.  In a call: pc is its place in the code, alg
\* and seed its arguments, key the cache key, dir the cache_dir local of
\* load/save_persistent_cache, miss the branch on which the lookup returned
\* None, pk and sk the keypair read or generated, off the file offset of
\* its write handle, saved the Result of save_persistent_cache.
Idle ==
    [pc |-> "idle", alg |-> "none", seed |-> <<>>, key |-> <<>>,
     dir |-> <<>>, miss |-> "none", pk |-> <<>>, sk |-> <<>>, off |-> 0,
     saved |-> "none"]

\* No direct call has been made.
NoCall == [name |-> "none", alg |-> "none", args |-> <<>>, out |-> <<>>]

InFlight(p) == proc[p].pc # "idle"
AllIdle == \A p \in Procs : ~InFlight(p)
AlgSeedOf(p) == <<proc[p].alg, proc[p].seed>>
FileOf(p) == CacheFile(proc[p].dir, proc[p].key)

Init ==
    /\ env = <<>>
    /\ DETERMINISTIC_CACHE = <<>>
    /\ dirs = {}
    /\ files = <<>>
    /\ proc = [p \in Procs |-> Idle]
    /\ calls = 0
    /\ events = 0
    /\ wipes = 0
    /\ firstRet = [as \in AlgSeeds |-> NoRecord]
    /\ gens = [as \in AlgSeeds |-> 0]
    /\ storeFailed = FALSE
    /\ preWipe = [as \in AlgSeeds |-> NoRecord]
    /\ writers = <<>>
    /\ crashed = FALSE
    /\ last = NoCall

\* ----------------------------------------------- *_keypair_from_seed: load

\* load_persistent_cache behind an in-process map of the keypairs returned
\* earlier, which outlives the files.
LoadBehindMemory(cache_key) ==
    LET cache_dir == get_cache_dir
        cache_file == CacheFile(cache_dir, cache_key)
        known == {as \in AlgSeeds :
                     CacheKey(as[1], as[2]) = cache_key /\ preWipe[as] # NoRecord}
    IN  IF known # {}
        THEN [rec |-> preWipe[CHOOSE as \in known : TRUE], miss |-> "none"]
        ELSE IF cache_dir \notin dirs
        THEN [rec |-> NoRecord, miss |-> "absent"]
        ELSE IF cache_file \notin DOMAIN files
        THEN [rec |-> NoRecord, miss |-> "absent"]
        ELSE IF ParseRecord(files[cache_file]) = NoRecord
        THEN [rec |-> NoRecord, miss |-> "short"]
        ELSE [rec |-> ParseRecord(files[cache_file]), miss |-> "none"]

\* load_persistent_cache with the test of the directory inverted.
LoadDirTestInverted(cache_key) ==
    LET cache_dir == get_cache_dir
        cache_file == CacheFile(cache_dir, cache_key)
    IN  IF cache_dir \in dirs
        THEN [rec |-> NoRecord, miss |-> "absent"]
        ELSE IF cache_file \notin DOMAIN files
        THEN [rec |-> NoRecord, miss |-> "absent"]
        ELSE IF ParseRecord(files[cache_file]) = NoRecord
        THEN [rec |-> NoRecord, miss |-> "short"]
        ELSE [rec |-> ParseRecord(files[cache_file]), miss |-> "none"]

\* load_persistent_cache(cache_key): None if the cache directory does not
\* exist, if the record file cannot be read, or if its bytes do not hold a
\* record; else Some((pk, sk)).  The result and, for None, the branch taken.
load_persistent_cache(cache_key) ==
    LET cache_dir == get_cache_dir
        cache_file == CacheFile(cache_dir, cache_key)
    IN  IF cache_dir \notin dirs
        THEN [rec |-> NoRecord, miss |-> "absent"]
        ELSE IF cache_file \notin DOMAIN files
        THEN [rec |-> NoRecord, miss |-> "absent"]
        ELSE IF ParseRecord(files[cache_file]) = NoRecord
        THEN [rec |-> NoRecord, miss |-> "short"]
        ELSE [rec |-> ParseRecord(files[cache_file]), miss |-> "none"]

\* DeriveBegin with a lookup that makes sure the cache directory exists
\* (create_dir_all) before it looks for the file.
DeriveBeginMkdir(p, alg, seed) ==
    /\ proc[p].pc = "idle"
    /\ \A q \in Procs : q < p => InFlight(q)
    /\ calls < MaxCalls
    /\ calls' = calls + 1
    /\ dirs' = dirs \cup {get_cache_dir}
    /\ LET cache_key_bytes == CacheKey(alg, seed)
           found == load_persistent_cache(cache_key_bytes)
           call == [Idle EXCEPT !.alg = alg, !.seed = seed,
                                !.key = cache_key_bytes, !.dir = get_cache_dir]
       IN  proc' = [proc EXCEPT ![p] =
                IF found.rec # NoRecord
                THEN [call EXCEPT !.pc = "ret_hit",
                                  !.pk = found.rec[1], !.sk = found.rec[2]]
                ELSE [call EXCEPT !.pc = "gen", !.miss = found.miss]]
    /\ UNCHANGED <<env, DETERMINISTIC_CACHE, last, files, histVars, events, wipes>>

\* A caller invokes the NIF on the first free worker thread: it builds the
\* cache key and looks the record up; a hit copies the record into the
\* binaries the NIF returns.
DeriveBegin(p, alg, seed) ==
    /\ proc[p].pc = "idle"
    /\ \A q \in Procs : q < p => InFlight(q)
    /\ calls < MaxCalls
    /\ calls' = calls + 1
    /\ LET cache_key_bytes == CacheKey(alg, seed)
           found == load_persistent_cache(cache_key_bytes)
           call == [Idle EXCEPT !.alg = alg, !.seed = seed,
                                !.key = cache_key_bytes, !.dir = get_cache_dir]
       IN  proc' = [proc EXCEPT ![p] =
                IF found.rec # NoRecord
                THEN [call EXCEPT !.pc = "ret_hit",
                                  !.pk = found.rec[1], !.sk = found.rec[2]]
                ELSE [call EXCEPT !.pc = "gen", !.miss = found.miss]]
    /\ UNCHANGED <<env, DETERMINISTIC_CACHE, last, fsVars, histVars, events, wipes>>

\* The same call made while no other derive is in flight.
DeriveBeginSeq(p, alg, seed) ==
    /\ AllIdle
    /\ DeriveBegin(p, alg, seed)

\* ------------------------------------------- *_keypair_from_seed: generate

\* dilithium2::keypair() / falcon512::keypair() / sphincsplus::keypair()
Generate(p, r) ==
    /\ proc[p].pc = "gen"
    /\ LET kp == Keypair(proc[p].alg, r)
       IN  /\ proc' = [proc EXCEPT ![p] =
                    [@ EXCEPT !.pc = "save", !.pk = kp[1], !.sk = kp[2]]]
           /\ gens' = [gens EXCEPT ![AlgSeedOf(p)] = @ + 1]
    /\ UNCHANGED <<env, DETERMINISTIC_CACHE, last, fsVars, calls,
                   firstRet, storeFailed, writers, preWipe, crashed,
                   events, wipes>>

\* ------------------------------------------------ save_persistent_cache

\* StoreError with the Err dropped (let _ = save_persistent_cache(..)): the
\* NIF goes on to return the keypair.
StoreErrorIgnored(p) ==
    /\ proc' = [proc EXCEPT ![p] = [@ EXCEPT !.pc = "ret_new", !.saved = "err"]]
    /\ events < MaxEvents
    /\ events' = events + 1
    /\ storeFailed' = TRUE

\* save_persistent_cache returns Err, and the NIF's map_err(..)? returns
\* the error term instead of a keypair.
StoreError(p) ==
    /\ proc' = [proc EXCEPT ![p] = [@ EXCEPT !.pc = "ret_err", !.saved = "err"]]
    /\ events < MaxEvents
    /\ events' = events + 1
    /\ storeFailed' = TRUE

\* fs::create_dir_all(&cache_dir) fails (permissions, read-only file system).
SaveMkdirFail(p) ==
    /\ proc[p].pc = "save"
    /\ StoreError(p)
    /\ UNCHANGED <<env, DETERMINISTIC_CACHE, last, fsVars, calls, wipes,
                   firstRet, gens, writers, preWipe, crashed>>

\* fs::create_dir_all(&cache_dir) succeeds; File::create, the first half of
\* fs::write, fails (permissions, no free inode).
SaveOpenFail(p) ==
    /\ proc[p].pc = "save"
    /\ dirs' = dirs \cup {get_cache_dir}
    /\ StoreError(p)
    /\ UNCHANGED <<env, DETERMINISTIC_CACHE, last, files, calls, wipes,
                   firstRet, gens, writers, preWipe, crashed>>

\* fs::create_dir_all(&cache_dir) succeeds and File::create opens the record
\* file, creating it or truncating it to length zero.
SaveOpen(p) ==
    /\ proc[p].pc = "save"
    /\ LET cache_dir == get_cache_dir
           cache_file == CacheFile(cache_dir, proc[p].key)
       IN  /\ dirs' = dirs \cup {cache_dir}
           /\ files' = (cache_file :> <<>>) @@ files
           /\ writers' = (cache_file :>
                            (IF cache_file \in DOMAIN writers
                             THEN writers[cache_file] \cup {AlgSeedOf(p)}
                             ELSE {AlgSeedOf(p)}))
                         @@ writers
           /\ proc' = [proc EXCEPT ![p] =
                    [@ EXCEPT !.pc = "write", !.dir = cache_dir, !.off = 0]]
    /\ UNCHANGED <<env, DETERMINISTIC_CACHE, last, calls, events, wipes,
                   firstRet, gens, storeFailed, preWipe, crashed>>

\* Bytes of p's record that its handle has not written yet.
Remaining(p) == Len(EncodeRecord(proc[p].pk, proc[p].sk)) - proc[p].off

\* The files after p's handle has written the next n bytes of its record at
\* its file offset.
Written(p, n) ==
    LET cache_file == FileOf(p)
        data == EncodeRecord(proc[p].pk, proc[p].sk)
        off == proc[p].off
    IN  IF cache_file \in DOMAIN files /\ n > 0
        THEN [files EXCEPT ![cache_file] =
                    WriteAt(@, off, SubSeq(data, off + 1, off + n))]
        ELSE files

\* fs::write, second half: write_all writes the rest of the record at the
\* file offset of p's handle; save_persistent_cache returns Ok(()) and the
\* NIF copies the generated keypair into its result.
SaveWrite(p) ==
    /\ proc[p].pc = "write"
    /\ files' = Written(p, Remaining(p))
    /\ proc' = [proc EXCEPT ![p] =
            [@ EXCEPT !.off = @ + Remaining(p), !.pc = "ret_new", !.saved = "ok"]]
    /\ UNCHANGED <<env, DETERMINISTIC_CACHE, last, dirs, calls, histVars, events, wipes>>

\* A write(2) of write_all's loop writes only the next n bytes (a short
\* write); the loop goes on from there.
SaveWriteShort(p, n) ==
    /\ proc[p].pc = "write"
    /\ n \in 1..(Remaining(p) - 1)
    /\ events < MaxEvents
    /\ events' = events + 1
    /\ files' = Written(p, n)
    /\ proc' = [proc EXCEPT ![p] = [@ EXCEPT !.off = @ + n]]
    /\ UNCHANGED <<env, DETERMINISTIC_CACHE, last, dirs, calls, histVars, wipes>>

\* write_all fails after n more bytes (disk full, quota, I/O error): the
\* bytes written so far stay in the file.
SaveWriteFail(p, n) ==
    /\ proc[p].pc = "write"
    /\ n \in 0..(Remaining(p) - 1)
    /\ files' = Written(p, n)
    /\ StoreError(p)
    /\ UNCHANGED <<env, DETERMINISTIC_CACHE, last, dirs, calls, wipes,
                   firstRet, gens, writers, preWipe, crashed>>

\* ------------------------------------------------------------------ return

Returned(p) == proc[p].pc \in {"ret_hit", "ret_new"}
Result(p) == <<proc[p].pk, proc[p].sk>>

\* The NIF returns to the caller: Ok((pk, sk)) or the error term.
Return(p) ==
    /\ proc[p].pc \in {"ret_hit", "ret_new", "ret_err"}
    /\ firstRet' = IF Returned(p) /\ firstRet[AlgSeedOf(p)] = NoRecord
                   THEN [firstRet EXCEPT ![AlgSeedOf(p)] = Result(p)]
                   ELSE firstRet
    /\ proc' = [proc EXCEPT ![p] = Idle]
    /\ UNCHANGED <<env, DETERMINISTIC_CACHE, last, fsVars, calls, events, wipes,
                   gens, storeFailed, writers, preWipe, crashed>>

\* ------------------------------------------------- the cache, called alone

\* Cache keys and key bytes for calls of load_ and save_persistent_cache
\* on their own: the functions take any bytes (an empty key, a key that
\* reads as a record).
CacheKeyInputs == {<<255, 16>>, CacheKey("dilithium2", <<>>)}
KeyBytesInputs == {<<>>, <<7>>, <<1, 0, 0, 0, 9>>}

\* load_persistent_cache(cache_key)
CacheLookup(cache_key) ==
    /\ last' = [name |-> "lookup", alg |-> "none", args |-> <<cache_key>>,
                out |-> load_persistent_cache(cache_key).rec]
    /\ UNCHANGED cacheVars

\* save_persistent_cache(cache_key, pk_bytes, sk_bytes) returning Ok(())
CacheStore(cache_key, pk_bytes, sk_bytes) ==
    /\ calls < MaxCalls
    /\ calls' = calls + 1
    /\ LET cache_dir == get_cache_dir
           cache_file == CacheFile(cache_dir, cache_key)
           data == EncodeRecord(pk_bytes, sk_bytes)
       IN  /\ dirs' = dirs \cup {cache_dir}
           /\ files' = (cache_file :> data) @@ files
    /\ last' = [name |-> "store", alg |-> "none",
                args |-> <<cache_key, pk_bytes, sk_bytes>>, out |-> <<"ok">>]
    /\ UNCHANGED <<env, DETERMINISTIC_CACHE, proc, events, wipes, histVars>>

\* save_persistent_cache(cache_key, pk_bytes, sk_bytes) returning Err: on
\* create_dir_all (at = "mkdir"), on File::create (at = "open"), or on
\* write_all with n bytes of the record written (at = "write").
CacheStoreFail(cache_key, pk_bytes, sk_bytes, at, n) ==
    /\ calls < MaxCalls
    /\ calls' = calls + 1
    /\ events < MaxEvents
    /\ events' = events + 1
    /\ LET cache_dir == get_cache_dir
           cache_file == CacheFile(cache_dir, cache_key)
           data == EncodeRecord(pk_bytes, sk_bytes)
       IN  /\ at = "write" => n < Len(data)
           /\ at # "write" => n = 0
           /\ dirs' = IF at = "mkdir" THEN dirs ELSE dirs \cup {cache_dir}
           /\ files' = IF at = "write"
                       THEN (cache_file :> SubSeq(data, 1, n)) @@ files
                       ELSE files
    /\ last' = [name |-> "store", alg |-> "none",
                args |-> <<cache_key, pk_bytes, sk_bytes>>, out |-> <<"error", at>>]
    /\ UNCHANGED <<env, DETERMINISTIC_CACHE, proc, wipes, histVars>>

\* --------------------------------------------------------- sign and verify

\* The signature schemes are outside this code.  A secret or public key
\* parses when it has the length of its algorithm's keys; a detached
\* signature binds the key pair (the secret key's first byte names the
\* public key's) and the message (by a one-byte tag of it).
MsgTag(message) == IF message = <<>> THEN 0 ELSE message[1]

\* SecretKey::from_bytes(&private_key) is Ok
SecretKeyFromBytes(alg, bytes) == Len(bytes) = SkLen(alg)

\* PublicKey::from_bytes(&public_key) is Ok
PublicKeyFromBytes(alg, bytes) == Len(bytes) = PkLen(alg)

\* detached_sign(&message, &sk).as_bytes()
DetachedSign(alg, message, sk) ==
    <<(ByteRange - sk[1]) % ByteRange, MsgTag(message)>>

SigLen(alg) == Len(DetachedSign(alg, <<>>, Keypair(alg, 1)[2]))

\* DetachedSignature::from_bytes(&signature) is Ok
DetachedSignatureFromBytes(alg, bytes) == Len(bytes) \in 1..SigLen(alg)

\* verify_detached_signature(&sig, &message, &pk).is_ok()
VerifyDetachedSignature(alg, sig, message, pk) ==
    /\ Len(sig) = SigLen(alg)
    /\ sig[1] = pk[1]
    /\ sig[2] = MsgTag(message)

\* The outcome of *_sign: Ok(signature) or Err(BadArg).
sign(alg, message, private_key) ==
    IF SecretKeyFromBytes(alg, private_key)
    THEN <<"ok", DetachedSign(alg, message, private_key)>>
    ELSE <<"error", "badarg">>

\* verify raising BadArg, as sign does, when the public key does not parse.
verifyRaising(alg, signature, message, public_key) ==
    IF ~PublicKeyFromBytes(alg, public_key)
    THEN <<"error", "badarg">>
    ELSE IF DetachedSignatureFromBytes(alg, signature)
    THEN <<"bool", VerifyDetachedSignature(alg, signature, message, public_key)>>
    ELSE <<"bool", FALSE>>

\* The outcome of *_verify: the boolean it returns.
verify(alg, signature, message, public_key) ==
    IF /\ DetachedSignatureFromBytes(alg, signature)
       /\ PublicKeyFromBytes(alg, public_key)
    THEN <<"bool", VerifyDetachedSignature(alg, signature, message, public_key)>>
    ELSE <<"bool", FALSE>>

\* Arguments callers pass to sign and verify: keys and signatures of the
\* algorithm, and bytes that are too short, too long, or forged.
Messages == {<<>>, <<1>>}

SecretKeyInputs(alg) ==
    {Keypair(alg, r)[2] : r \in 1..NumDraws}
        \cup {<<>>, Keypair(alg, 1)[2] \o <<0>>,
              SubSeq(Keypair(alg, 1)[2], 1, SkLen(alg) - 1)}

PublicKeyInputs(alg) ==
    {Keypair(alg, r)[1] : r \in 1..NumDraws}
        \cup {<<>>, Keypair(alg, 1)[1] \o <<0>>,
              SubSeq(Keypair(alg, 1)[1], 1, PkLen(alg) - 1)}

SignatureInputs(alg) ==
    {DetachedSign(alg, m, Keypair(alg, r)[2]) : m \in Messages, r \in 1..NumDraws}
        \cup {<<>>, <<0, 0>>, <<1>>,
              DetachedSign(alg, <<>>, Keypair(alg, 1)[2]) \o <<0>>}

\* dilithium2_sign / falcon512_sign / sphincsplus_shake_128f_sign
Sign(alg, message, private_key) ==
    /\ last' = [name |-> "sign", alg |-> alg, args |-> <<message, private_key>>,
                out |-> sign(alg, message, private_key)]
    /\ UNCHANGED cacheVars

\* dilithium2_verify / falcon512_verify / sphincsplus_shake_128f_verify
Verify(alg, signature, message, public_key) ==
    /\ last' = [name |-> "verify", alg |-> alg,
                args |-> <<signature, message, public_key>>,
                out |-> verify(alg, signature, message, public_key)]
    /\ UNCHANGED cacheVars

\* ------------------------------------------------------------- environment

\* The cache directory is cleared from outside between two calls: its record
\* files are removed, and with removeDir the directory itself.
Wipe(d, removeDir) ==
    /\ AllIdle
    /\ d \in dirs
    /\ calls < MaxCalls
    /\ \E f \in DOMAIN files : f[1] = d
    /\ files' = [f \in {g \in DOMAIN files : g[1] # d} |-> files[f]]
    /\ dirs' = IF removeDir THEN dirs \ {d} ELSE dirs
    /\ events < MaxEvents
    /\ events' = events + 1
    /\ wipes' = wipes + 1
    /\ preWipe' = firstRet
    /\ firstRet' = [as \in AlgSeeds |-> NoRecord]
    /\ gens' = [as \in AlgSeeds |-> 0]
    /\ storeFailed' = FALSE
    /\ writers' = <<>>
    /\ crashed' = FALSE
    /\ UNCHANGED <<env, DETERMINISTIC_CACHE, last, proc, calls>>

\* Bytes a record file may be left holding by something other than a
\* completed store: fewer than four, fewer than the length they declare,
\* and records whose keys are not of any algorithm's lengths (an empty
\* public key, an empty secret key).
TamperData ==
    {<<>>, <<1, 0, 0>>, <<2, 0, 0, 0, 7>>, <<0, 1, 0, 0, 7, 8>>,
     <<0, 0, 0, 0>>, <<1, 0, 0, 0, 7>>, <<0, 0, 0, 0, 7, 8>>,
     <<1, 0, 0, 0, 7, 8, 9>>}

\* Between two calls a record file of the cache directory is replaced from
\* outside (truncated, corrupted, restored from elsewhere).
Tamper(alg, seed, data) ==
    /\ AllIdle
    /\ get_cache_dir \in dirs
    /\ calls < MaxCalls
    /\ events < MaxEvents
    /\ events' = events + 1
    /\ files' = (CacheFile(get_cache_dir, CacheKey(alg, seed)) :> data) @@ files
    /\ UNCHANGED <<env, DETERMINISTIC_CACHE, last, dirs, proc, calls, wipes, histVars>>

\* Values of BASTILLE_STORAGE_BASE_PATH: unset, or set to a base path.
EnvValues == {<<>>, <<"data/alt">>}

\* Between two calls the environment variable is set, changed or unset in
\* the running process.
SetEnv(value) ==
    /\ AllIdle
    /\ calls > 0
    /\ calls < MaxCalls
    /\ value # env
    /\ env' = value
    /\ UNCHANGED <<DETERMINISTIC_CACHE, last, fsVars, proc, calls, events, wipes,
                   histVars>>

\* The host process dies while p's call is in flight, n bytes into p's
\* write_all if p is there: every call in flight is lost with its thread,
\* the files stay as they are.
Crash(p, n) ==
    /\ InFlight(p)
    /\ IF proc[p].pc = "write" THEN n \in 0..(Remaining(p) - 1) ELSE n = 0
    /\ files' = Written(p, n)
    /\ proc' = [q \in Procs |-> Idle]
    /\ events < MaxEvents
    /\ events' = events + 1
    /\ crashed' = TRUE
    /\ UNCHANGED <<env, DETERMINISTIC_CACHE, last, dirs, calls, wipes,
                   firstRet, gens, storeFailed, writers, preWipe>>

\* ---------------------------------------------------------- specifications

Step(p) ==
    \/ \E r \in 1..NumDraws : Generate(p, r)
    \/ SaveMkdirFail(p)
    \/ SaveOpenFail(p)
    \/ SaveOpen(p)
    \/ SaveWrite(p)
    \/ \E n \in 1..MaxRecordLen : SaveWriteShort(p, n)
    \/ \E n \in 0..MaxRecordLen : SaveWriteFail(p, n)
    \/ Return(p)

\* The steps of a call whose store meets no failure and no short write.
StepOk(p) ==
    \/ \E r \in 1..NumDraws : Generate(p, r)
    \/ SaveOpen(p)
    \/ SaveWrite(p)
    \/ Return(p)

\* Worker threads call the NIFs concurrently; the process may die.
Next ==
    \/ \E p \in Procs, alg \in Algs, seed \in Seeds : DeriveBegin(p, alg, seed)
    \/ \E p \in Procs : Step(p)
    \/ \E d \in dirs, removeDir \in BOOLEAN : Wipe(d, removeDir)
    \/ \E p \in Procs, n \in 0..MaxRecordLen : Crash(p, n)

Spec == Init /\ [][Next]_vars

\* One derive call at a time.
NextSeq ==
    \/ \E p \in Procs, alg \in Algs, seed \in Seeds : DeriveBeginSeq(p, alg, seed)
    \/ \E p \in Procs : Step(p)
    \/ \E d \in dirs, removeDir \in BOOLEAN : Wipe(d, removeDir)

SpecSeq == Init /\ [][NextSeq]_vars

\* One derive call at a time over a cache whose files may be replaced from
\* outside.
NextTamper ==
    \/ \E p \in Procs, alg \in Algs, seed \in Seeds : DeriveBeginSeq(p, alg, seed)
    \/ \E p \in Procs : StepOk(p)
    \/ \E alg \in Algs, seed \in Seeds, data \in TamperData : Tamper(alg, seed, data)

SpecTamper == Init /\ [][NextTamper]_vars

\* load_persistent_cache and save_persistent_cache called on their own,
\* one call at a time.
NextCache ==
    \/ \E cache_key \in CacheKeyInputs : CacheLookup(cache_key)
    \/ \E cache_key \in CacheKeyInputs, pk_bytes \in KeyBytesInputs,
          sk_bytes \in KeyBytesInputs :
           \/ CacheStore(cache_key, pk_bytes, sk_bytes)
           \/ \E at \in {"mkdir", "open", "write"}, n \in 0..MaxRecordLen :
                  CacheStoreFail(cache_key, pk_bytes, sk_bytes, at, n)

SpecCache == Init /\ [][NextCache]_vars

\* One derive call at a time in a process whose environment changes.
NextEnv ==
    \/ \E p \in Procs, alg \in Algs, seed \in Seeds : DeriveBeginSeq(p, alg, seed)
    \/ \E p \in Procs : StepOk(p)
    \/ \E value \in EnvValues : SetEnv(value)

SpecEnv == Init /\ [][NextEnv]_vars

\* Callers sign and verify.
NextSign ==
    \/ \E alg \in Algs, message \in Messages :
           \E private_key \in SecretKeyInputs(alg) :
               Sign(alg, message, private_key)
    \/ \E alg \in Algs, message \in Messages :
           \E signature \in SignatureInputs(alg), public_key \in PublicKeyInputs(alg) :
               Verify(alg, signature, message, public_key)

SpecSign == Init /\ [][NextSign]_vars

\* ------------------------------------------------------------------ claims

IsProperPrefix(a, b) == Len(a) < Len(b) /\ a = SubSeq(b, 1, Len(a))

\* The record files of <<alg, seed>>, one per cache directory that exists.
FilesOf(alg, seed) ==
    {f \in DOMAIN files : f[2] = HexEncode(CacheKey(alg, seed))}

\* C1: a derive that returns a keypair returns the keypair the first
\* successful derive of the same algorithm and seed returned, as long as the
\* cache has not been cleared from outside and derive calls do not overlap.
C1_Determinism ==
    \A p \in Procs :
        (Returned(p) /\ firstRet[AlgSeedOf(p)] # NoRecord)
            => Result(p) = firstRet[AlgSeedOf(p)]

\* A later derive has read the record back after an earlier one returned.
C1_Witness ==
    \E p \in Procs :
        /\ proc[p].pc = "ret_hit"
        /\ firstRet[AlgSeedOf(p)] # NoRecord
        /\ gens[AlgSeedOf(p)] = 1

\* C2: a record file left holding a proper prefix of the bytes a store of
\* its cache key writes (the write was interrupted) is looked up as absent.
C2_TornWriteAbsent ==
    AllIdle =>
        \A alg \in Algs, seed \in Seeds, r \in 1..NumDraws :
            \A f \in FilesOf(alg, seed) :
                LET kp == Keypair(alg, r)
                IN  IsProperPrefix(files[f], EncodeRecord(kp[1], kp[2]))
                        => ParseRecord(files[f]) = NoRecord

\* C3: a derive that missed returns its generated keypair only when
\* save_persistent_cache returned Ok with every byte of the record written;
\* when the store failed the NIF returns the error and no keypair.
C3_StoreFailureFatal ==
    \A p \in Procs :
        /\ proc[p].pc = "ret_new" => (proc[p].saved = "ok" /\ Remaining(p) = 0)
        /\ proc[p].saved = "err" => proc[p].pc = "ret_err"
        /\ proc[p].pc = "ret_hit" => proc[p].saved = "none"

\* A store has failed and the call is about to return the error.
C3_Witness ==
    \E p \in Procs :
        /\ proc[p].pc = "ret_err"
        /\ proc[p].saved = "err"
        /\ proc[p].pk # <<>>

\* C4: in a sequential run with no store failure and no outside clearing,
\* keypair() runs at most once per algorithm and seed, and once a derive has
\* returned, every later derive of that pair is a hit that returns the one
\* generated keypair without generating.
C4_NoRegeneration ==
    ~storeFailed =>
        \A as \in AlgSeeds :
            /\ gens[as] <= 1
            /\ firstRet[as] # NoRecord =>
                /\ gens[as] = 1
                /\ \A p \in Procs :
                       (InFlight(p) /\ AlgSeedOf(p) = as) =>
                           /\ proc[p].pc = "ret_hit"
                           /\ Result(p) = firstRet[as]

\* A later call of a pair that has generated once is served from the file.
C4_Witness ==
    \E p \in Procs :
        /\ ~storeFailed
        /\ wipes = 0
        /\ proc[p].pc = "ret_hit"
        /\ firstRet[AlgSeedOf(p)] # NoRecord
        /\ gens[AlgSeedOf(p)] = 1

\* C5: distinct <<algorithm, seed>> pairs have distinct hash inputs, cache
\* keys and record files (same seed under two algorithms, the empty seed
\* and seeds that begin with another algorithm's tag included); a record
\* file is only ever written by the derives of one pair, and a hit returns
\* a record its own pair wrote.  (The first conjunct does not depend on
\* the state: it is evaluated where no call has been made.)
C5_Isolation ==
    /\ calls = 0 =>
           /\ \A a \in Algs, b \in Algs, s \in KeySeeds, t \in KeySeeds :
                  <<a, s>> # <<b, t>> =>
                      /\ HashInput(a, s) # HashInput(b, t)
                      /\ CacheKey(a, s) # CacheKey(b, t)
                      /\ CacheFile(get_cache_dir, CacheKey(a, s))
                             # CacheFile(get_cache_dir, CacheKey(b, t))
    /\ \A f \in DOMAIN writers : Cardinality(writers[f]) = 1
    /\ \A p \in Procs :
           proc[p].pc = "ret_hit" =>
               /\ FileOf(p) \in DOMAIN writers
               /\ writers[FileOf(p)] = {AlgSeedOf(p)}

\* A derive reads its own record back while the record of another
\* algorithm for the same seed is in the cache.
C5_Witness ==
    \E p \in Procs :
        /\ proc[p].pc = "ret_hit"
        /\ \E f \in DOMAIN files :
               /\ f # FileOf(p)
               /\ ParseRecord(files[f]) # NoRecord
               /\ \E alg \in Algs \ {proc[p].alg} : f \in FilesOf(alg, proc[p].seed)

\* The length a record's first four bytes declare.
DeclaredPkLen(data) == U32FromLeBytes(data[1], data[2], data[3], data[4])

IsShort(data) ==
    \/ Len(data) < LenPrefix
    \/ Len(data) < LenPrefix + DeclaredPkLen(data)

\* C6: a record file shorter than 4 bytes or than 4 + its declared
\* public-key length is never a hit and is no error; the derive that finds
\* it generates a keypair and leaves the file holding exactly the
\* 4 + len(pk) + len(sk) bytes of the keypair it returns.
C6_CorruptionTolerance ==
    \A p \in Procs :
        /\ proc[p].pc = "ret_hit" =>
               /\ FileOf(p) \in DOMAIN files
               /\ ~IsShort(files[FileOf(p)])
        /\ proc[p].miss = "short" =>
               /\ proc[p].pc \in {"gen", "save", "write", "ret_new", "ret_err"}
               /\ proc[p].pc = "ret_err" => proc[p].saved = "err"
        /\ proc[p].pc = "gen" =>
               (FileOf(p) \in DOMAIN files => IsShort(files[FileOf(p)]))
        /\ proc[p].pc = "ret_new" =>
               /\ FileOf(p) \in DOMAIN files
               /\ Len(files[FileOf(p)]) = LenPrefix + Len(proc[p].pk) + Len(proc[p].sk)
               /\ ParseRecord(files[FileOf(p)]) = Result(p)

\* A derive found a short file, generated a keypair and has overwritten the
\* file with its record.
C6_Witness ==
    \E p \in Procs :
        /\ proc[p].pc = "ret_new"
        /\ proc[p].miss = "short"
        /\ ParseRecord(files[FileOf(p)]) = Result(p)

\* Key lengths for the record format, past one byte of length included.
FormatLens == {0, 1, 256, 258}

\* The bytes are LenPrefix + Len(pk) + Len(sk) long, start with Len(pk) as
\* four little-endian bytes, go on with pk and end with sk.
HasRecordFormat(data, pk, sk) ==
    /\ Len(data) = LenPrefix + Len(pk) + Len(sk)
    /\ \A i \in 1..LenPrefix : data[i] \in 0..(ByteRange - 1)
    /\ data[1] + ByteRange * data[2] + ByteRange * ByteRange * data[3]
           + ByteRange * ByteRange * ByteRange * data[4] = Len(pk)
    /\ SubSeq(data, LenPrefix + 1, LenPrefix + Len(pk)) = pk
    /\ SubSeq(data, LenPrefix + Len(pk) + 1, Len(data)) = sk

\* C9: when a store has succeeded the record file holds exactly
\* 4 + L1 + L2 bytes: L1 in four little-endian bytes, the public key, the
\* secret key, and nothing of what the file held before; so do the bytes
\* built for keys of other lengths (which do not depend on the state: they
\* are evaluated where no call has been made).
C9_FormatExactness ==
    /\ \A p \in Procs :
           proc[p].pc = "ret_new" =>
               /\ FileOf(p) \in DOMAIN files
               /\ HasRecordFormat(files[FileOf(p)], proc[p].pk, proc[p].sk)
    /\ calls = 0 =>
           \A l1 \in FormatLens, l2 \in FormatLens :
               LET pk == [i \in 1..l1 |-> i % ByteRange]
                   sk == [i \in 1..l2 |-> ByteRange - i]
               IN  HasRecordFormat(EncodeRecord(pk, sk), pk, sk)

\* A store has replaced the shorter bytes a failed store had left.
C9_Witness ==
    \E p \in Procs :
        /\ proc[p].pc = "ret_new"
        /\ proc[p].miss = "short"
        /\ storeFailed
        /\ HasRecordFormat(files[FileOf(p)], proc[p].pk, proc[p].sk)

\* A record file holds the complete record of a keypair of its algorithm.
IsCompleteRecord(f) ==
    \E alg \in Algs, seed \in Seeds, r \in 1..NumDraws :
        /\ f \in FilesOf(alg, seed)
        /\ files[f] = EncodeRecord(Keypair(alg, r)[1], Keypair(alg, r)[2])

\* C7: once a record file holds a complete record, no step of a derive
\* call changes or removes it.
C7_RecordImmutable ==
    [][events' = events =>
          \A f \in DOMAIN files :
              IsCompleteRecord(f) => (f \in DOMAIN files' /\ files'[f] = files[f])]_vars

\* C8: derive takes no lock and does not look again before it stores: the
\* store of a call that missed replaces whatever the file holds, the record
\* of a concurrent first writer included, with its own record (the later
\* store wins), and a later lookup returns what the file then holds.
C8_LastStoreWins ==
    [][\A p \in Procs :
          /\ (proc[p].pc = "write" /\ proc[p].off = 0 /\ proc'[p].pc = "ret_new") =>
                 /\ FileOf(p) \in DOMAIN files'
                 /\ files'[FileOf(p)] = EncodeRecord(proc[p].pk, proc[p].sk)
                 /\ <<proc'[p].pk, proc'[p].sk>> = Result(p)
          /\ (proc[p].pc = "idle" /\ proc'[p].pc = "ret_hit") =>
                 /\ CacheFile(proc'[p].dir, proc'[p].key) \in DOMAIN files
                 /\ HasRecordFormat(files[CacheFile(proc'[p].dir, proc'[p].key)],
                                    proc'[p].pk, proc'[p].sk)]_vars

\* Two calls of one pair both missed and generated; the one that stored
\* first is returning its own keypair while a later derive reads back the
\* other one's record.
C8_Witness ==
    \E p \in Procs, q \in Procs :
        /\ events = 0
        /\ proc[p].pc = "ret_new"
        /\ proc[q].pc = "ret_hit"
        /\ AlgSeedOf(p) = AlgSeedOf(q)
        /\ gens[AlgSeedOf(p)] = 2
        /\ Result(p) # Result(q)
        /\ files[FileOf(q)] = EncodeRecord(proc[q].pk, proc[q].sk)

\* C10: after the cache has been cleared from outside, every keypair a
\* derive returns was generated after the clearing (once per algorithm and
\* seed) and is the record the file holds: the keypairs derived before are
\* gone.
C10_WipeRegenerates ==
    (wipes > 0 /\ ~storeFailed) =>
        \A p \in Procs :
            Returned(p) =>
                /\ gens[AlgSeedOf(p)] = 1
                /\ firstRet[AlgSeedOf(p)] # NoRecord =>
                       Result(p) = firstRet[AlgSeedOf(p)]
                /\ FileOf(p) \in DOMAIN files
                /\ ParseRecord(files[FileOf(p)]) = Result(p)

\* A pair derived before the clearing was generated again after it, and a
\* later derive reads back the new keypair, not the old one.
C10_Witness ==
    \E p \in Procs :
        /\ wipes > 0
        /\ proc[p].pc = "ret_hit"
        /\ preWipe[AlgSeedOf(p)] # NoRecord
        /\ firstRet[AlgSeedOf(p)] = Result(p)
        /\ gens[AlgSeedOf(p)] = 1
        /\ Result(p) # preWipe[AlgSeedOf(p)]

\* C11: for each algorithm, sign returns the error, and no signature,
\* exactly when the secret-key bytes do not parse, and else the signature;
\* verify returns a boolean and never an error: true exactly when the
\* signature bytes parse, the public-key bytes parse and the signature
\* verifies for the message under the key, false in every other case.
C11_SignVerifyAsymmetry ==
    /\ last.name = "sign" =>
           LET message == last.args[1]
               private_key == last.args[2]
           IN  IF Len(private_key) = SkLen(last.alg)
               THEN last.out = <<"ok", DetachedSign(last.alg, message, private_key)>>
               ELSE last.out = <<"error", "badarg">>
    /\ last.name = "verify" =>
           LET signature == last.args[1]
               message == last.args[2]
               public_key == last.args[3]
               genuine ==
                   /\ Len(signature) \in 1..SigLen(last.alg)
                   /\ Len(public_key) = PkLen(last.alg)
                   /\ \E sk \in SecretKeyInputs(last.alg) :
                          /\ Len(sk) = SkLen(last.alg)
                          /\ public_key[1] = (ByteRange - sk[1]) % ByteRange
                          /\ signature = DetachedSign(last.alg, message, sk)
           IN  /\ last.out[1] = "bool"
               /\ last.out[2] \in BOOLEAN
               /\ last.out[2] = genuine

\* verify has answered false for a well-formed signature and public-key
\* bytes that do not parse.
C11_Witness ==
    /\ last.name = "verify"
    /\ last.out = <<"bool", FALSE>>
    /\ DetachedSignatureFromBytes(last.alg, last.args[1])
    /\ ~PublicKeyFromBytes(last.alg, last.args[3])

\* C12: what a lookup returns is a function of the directory and the bytes
\* of <cache dir>/<hex(cache key)>.keypair alone.  It is absent when the
\* directory or the file does not exist, when the file has fewer than 4
\* bytes or fewer than 4 + n, n its first four bytes read little-endian;
\* in every other case it is bytes [4, 4+n) as public key and the rest of
\* the file, possibly nothing, as secret key, whatever the algorithm's key
\* lengths.  derive generates in the first case and returns the record as
\* it is in the second.
C12_LookupByBytes ==
    [][\A p \in Procs :
          /\ (proc[p].pc = "idle" /\ proc'[p].pc # "idle") =>
                 LET dir == <<IF env = <<>> THEN "data/test" ELSE env[1], "/key_cache">>
                     f == <<dir, HexEncode(proc'[p].key), ".keypair">>
                     absent == \/ dir \notin dirs
                               \/ f \notin DOMAIN files
                               \/ IsShort(files[f])
                 IN  /\ proc'[p].key = DomainTag(proc'[p].alg) \o proc'[p].seed
                     /\ absent => proc'[p].pc = "gen"
                     /\ ~absent =>
                            LET data == files[f]
                                n == DeclaredPkLen(data)
                            IN  /\ proc'[p].pc = "ret_hit"
                                /\ proc'[p].pk = [i \in 1..n |-> data[LenPrefix + i]]
                                /\ proc'[p].sk = [i \in 1..(Len(data) - LenPrefix - n) |->
                                                     data[LenPrefix + n + i]]
          /\ proc[p].pc = "ret_hit" => proc'[p] \in {proc[p], Idle}]_vars

\* A derive is returning a record whose keys are not of its algorithm's
\* lengths: the secret key is empty.
C12_Witness ==
    \E p \in Procs :
        /\ proc[p].pc = "ret_hit"
        /\ proc[p].sk = <<>>
        /\ Len(proc[p].pk) # PkLen(proc[p].alg)
        /\ files[FileOf(p)] \in TamperData

\* C13: a lookup that comes next after a successful store of the same cache
\* key returns exactly the public key and the secret key that were stored,
\* for any cache key and any two byte strings, empty ones included.
C13_StoreLookupRoundTrip ==
    [][(/\ last.name = "store"
        /\ last.out = <<"ok">>
        /\ last'.name = "lookup"
        /\ last'.args[1] = last.args[1])
          => last'.out = <<last.args[2], last.args[3]>>]_vars

\* A lookup has returned a record of an empty public key and an empty
\* secret key from the four bytes a store wrote.
C13_Witness ==
    /\ last.name = "lookup"
    /\ last.out = <<<<>>, <<>>>>
    /\ \E f \in DOMAIN files :
           /\ f[2] = HexEncode(last.args[1])
           /\ files[f] = <<0, 0, 0, 0>>

\* C14: when every derive call has returned, none has failed in its store
\* and the process has not died, every record file holds the complete
\* record of one keypair that one call generated (never bytes of two
\* writers), and a derive that starts then returns that record.
C14_Convergence ==
    [][(AllIdle /\ ~crashed /\ ~storeFailed) =>
          /\ \A f \in DOMAIN files : IsCompleteRecord(f)
          /\ \A p \in Procs :
                 (proc'[p].pc # "idle"
                     /\ CacheFile(proc'[p].dir, proc'[p].key) \in DOMAIN files) =>
                        /\ proc'[p].pc = "ret_hit"
                        /\ files[CacheFile(proc'[p].dir, proc'[p].key)]
                               = EncodeRecord(proc'[p].pk, proc'[p].sk)]_vars

\* C15: the lookup of a derive call creates, changes and removes no file
\* and no directory (it does not create a missing cache directory), and a
\* call whose lookup found a record goes from there to its return without
\* calling the store and without touching the file system.
C15_ReadsLeaveCache ==
    [][\A p \in Procs :
          (\A q \in Procs \ {p} : proc'[q] = proc[q]) =>
              /\ (proc[p].pc = "idle" /\ proc'[p].pc # "idle") =>
                     (dirs' = dirs /\ files' = files)
              /\ proc[p].pc = "ret_hit" =>
                     /\ proc[p].saved = "none"
                     /\ proc'[p] \in {proc[p], Idle}
                     /\ proc'[p] = Idle => (dirs' = dirs /\ files' = files)]_vars

\* A lookup has found no cache directory and has left it missing, the call
\* being about to generate.
C15_Witness ==
    \E p \in Procs :
        /\ proc[p].pc = "gen"
        /\ proc[p].miss = "absent"
        /\ proc[p].dir \notin dirs
        /\ dirs = {}

\* C16: a step of a derive call (a hit, a miss that stores, a store that
\* fails, the death of the process in it) creates or changes no file but
\* the one named by the hex of that call's own cache key, removes no file,
\* and only ever adds the cache directory; every record file is written
\* by the calls of one <<algorithm, seed>> only, so calls for distinct
\* cache keys, concurrent ones included, do not reach each other's record.
C16_PerKeyFrame ==
    [][wipes' = wipes =>
          /\ DOMAIN files \subseteq DOMAIN files'
          /\ \A f \in DOMAIN files' :
                 (f \notin DOMAIN files \/ files'[f] # files[f]) =>
                     \E p \in Procs :
                         /\ proc[p].pc \in {"save", "write"}
                         /\ proc'[p] # proc[p]
                         /\ f[2] = HexEncode(DomainTag(proc[p].alg) \o proc[p].seed)
          /\ dirs \subseteq dirs'
          /\ dirs' \subseteq dirs \cup {get_cache_dir}
          /\ \A f \in DOMAIN writers : Cardinality(writers[f]) = 1]_vars

\* Two concurrent calls for different algorithms have both stored, and each
\* file holds the record of its own call.
C16_Witness ==
    \E p \in Procs, q \in Procs :
        /\ proc[p].pc = "ret_new"
        /\ proc[q].pc = "ret_new"
        /\ proc[p].alg # proc[q].alg
        /\ FileOf(p) # FileOf(q)
        /\ files[FileOf(p)] = EncodeRecord(proc[p].pk, proc[p].sk)
        /\ files[FileOf(q)] = EncodeRecord(proc[q].pk, proc[q].sk)

\* C17: a keypair a derive has returned is in the in-process map under its
\* cache key, and a later derive of the pair in the same process is
\* answered from the map: it returns that keypair even when the cache
\* directory has been cleared since.
C17_MemoryFirstLevel ==
    /\ \A as \in AlgSeeds :
           firstRet[as] # NoRecord =>
               /\ CacheKey(as[1], as[2]) \in DOMAIN DETERMINISTIC_CACHE
               /\ DETERMINISTIC_CACHE[CacheKey(as[1], as[2])] = firstRet[as]
    /\ \A p \in Procs :
           (Returned(p) /\ wipes > 0 /\ preWipe[AlgSeedOf(p)] # NoRecord) =>
               /\ proc[p].pc = "ret_hit"
               /\ Result(p) = preWipe[AlgSeedOf(p)]

\* The cache directory as resolved when the process started (the variable
\* unset).
StartupCacheDir == <<DefaultBase, "/key_cache">>

\* C18: the cache directory is the one resolved at process start: every
\* lookup and every store of the process uses it, whatever the
\* configuration value has become since, so no other directory is created
\* and no record file lies elsewhere.
C18_BaseDirFixed ==
    /\ \A p \in Procs : InFlight(p) => proc[p].dir = StartupCacheDir
    /\ dirs \subseteq {StartupCacheDir}
    /\ \A f \in DOMAIN files : f[1] = StartupCacheDir

====
